---- MODULE Spec2Model ----
(***************************************************************************)
(* Fee ledger of the ALSDI school MIS (src/app.py): the fee schedule, the  *)
(* paid-to-date aggregation, the priority-ordered payment allocation and   *)
(* the cashier form that posts an allocation to the Payments_Log sheet;    *)
(* then the login session, the cached reads of the sheets and the          *)
(* registrar's enrollment form and Master List.                            *)
(*                                                                         *)
(* Currency values are Python floats.  A float is modelled as an integer   *)
(* number of quanta (one quantum = 2^-FracBits peso) that has at most      *)
(* SignificandBits significant bits; every float addition and subtraction  *)
(* rounds its exact result to the nearest such value, ties to even, as     *)
(* IEEE-754 binary64 does with 53 bits.                                    *)
(***************************************************************************)
EXTENDS Integers, Sequences, FiniteSets, TLC

VARIABLES
    registry,    \* rows of the Student_Registry sheet as read into df_reg
    payLog,      \* rows of the Payments_Log sheet as read into df_pay, oldest first
    sy,          \* st.session_state.sy, the selected school year
    post,        \* the last submission of the pay_tuition form and what it appended
    call,        \* the last logic-helper call: its name and arguments
    ret,         \* what that call returned
    users,       \* rows of the User_Accounts sheet
    cache,       \* what st.cache_data holds for fetch_sheet_data
    session,     \* st.session_state.logged_in and st.session_state.role
    screen       \* what the last script run rendered, and the data it rendered from

vars == <<registry, payLog, sy, post, call, ret, users, cache, session, screen>>

\* the state of the login session and of the cached reads
appVars == <<users, cache, session, screen>>

----------------------------------------------------------------------------
(* Floating point *)

\* binary fraction digits kept below one peso
FracBits == 3
\* significant bits of a float (53 in binary64)
SignificandBits == 16

Scale == 2 ^ FracBits
SignificandLimit == 2 ^ SignificandBits

\* the float of a whole number of pesos: float(n) of a Python int n
Peso(n) == n * Scale

Abs(x) == IF x < 0 THEN -x ELSE x

\* spacing of the floats around a magnitude of n quanta
RECURSIVE Ulp(_)
Ulp(n) == IF n < SignificandLimit THEN 1 ELSE 2 * Ulp(n \div 2)

\* round a magnitude to a multiple of u, ties to the even multiple
RoundHalfEven(n, u) ==
    LET q == n \div u
        r == n % u
    IN  IF 2 * r < u THEN q * u
        ELSE IF 2 * r > u THEN (q + 1) * u
        ELSE IF q % 2 = 0 THEN q * u ELSE (q + 1) * u

\* the float nearest to the exact value x
Fl(x) ==
    IF x >= 0 THEN RoundHalfEven(x, Ulp(x)) ELSE -RoundHalfEven(-x, Ulp(-x))

IsWhole(x) == x % Scale = 0

FAdd(a, b) == Fl(a + b)
FSub(a, b) == Fl(a - b)
FMul(a, b) == Fl((a * b) \div Scale)
Min(a, b) == IF a <= b THEN a ELSE b
Max(a, b) == IF a >= b THEN a ELSE b

----------------------------------------------------------------------------
(* Configuration *)

SCHOOL_YEARS == <<"2025-2026", "2026-2027", "2027-2028">>

FEE_STRUCTURE ==
    [g \in {"Pre-K", "Kinder", "Grade 1", "Grade 2", "Grade 3", "Grade 4",
            "Grade 5", "Grade 6", "Grade 7", "Grade 8", "Grade 9", "Grade 10"} |->
        CASE g = "Pre-K"    -> [dp |-> 9000,  monthly |-> 1175, books |-> 4500]
          [] g = "Kinder"   -> [dp |-> 10500, monthly |-> 1175, books |-> 4500]
          [] g = "Grade 1"  -> [dp |-> 9500,  monthly |-> 1275, books |-> 5230]
          [] g = "Grade 2"  -> [dp |-> 9500,  monthly |-> 1275, books |-> 5230]
          [] g = "Grade 3"  -> [dp |-> 9500,  monthly |-> 1275, books |-> 5230]
          [] g = "Grade 4"  -> [dp |-> 9500,  monthly |-> 1375, books |-> 6430]
          [] g = "Grade 5"  -> [dp |-> 9500,  monthly |-> 1375, books |-> 6430]
          [] g = "Grade 6"  -> [dp |-> 11500, monthly |-> 1375, books |-> 6430]
          [] g = "Grade 7"  -> [dp |-> 10000, monthly |-> 1475, books |-> 6430]
          [] g = "Grade 8"  -> [dp |-> 10000, monthly |-> 1475, books |-> 6430]
          [] g = "Grade 9"  -> [dp |-> 10000, monthly |-> 1475, books |-> 6430]
          [] g = "Grade 10" -> [dp |-> 11500, monthly |-> 1475, books |-> 6430]]

\* Monthly is Jun-Mar = 10 months
MONTHLY_MONTHS == 10

GRADE_LEVELS == DOMAIN FEE_STRUCTURE

----------------------------------------------------------------------------
(* Logic helpers *)

\* FEE_STRUCTURE.get(grade) is None exactly when grade is no key
HasFees(grade) == grade \in DOMAIN FEE_STRUCTURE

\* compute_total_fee with the books fee left out of the sum
compute_total_fee_without_books(grade) ==
    IF ~HasFees(grade) THEN 0
    ELSE LET fees == FEE_STRUCTURE[grade]
         IN  FAdd(Peso(fees.dp), FMul(Peso(fees.monthly), Peso(MONTHLY_MONTHS)))

compute_total_fee(grade) ==
    IF ~HasFees(grade) THEN 0
    ELSE LET fees == FEE_STRUCTURE[grade]
         IN  FAdd(FAdd(Peso(fees.dp), Peso(fees.books)),
                  FMul(Peso(fees.monthly), Peso(MONTHLY_MONTHS)))

\* Series.sum(): the amounts added one after the other, starting from 0
RECURSIVE SumAmount(_)
SumAmount(rows) ==
    IF rows = <<>> THEN 0
    ELSE FAdd(SumAmount(SubSeq(rows, 1, Len(rows) - 1)), rows[Len(rows)].Amount)

\* the mask of paid_by_category without its School_Year condition
CategoryMaskAnyYear(r, sid, sy_, category) ==
    r.Student_ID = sid /\ r.Notes = category

\* the mask of paid_by_category, row by row
CategoryMask(r, sid, sy_, category) ==
    r.Student_ID = sid /\ r.School_Year = sy_ /\ r.Notes = category

paid_by_category(df_pay, sid, sy_, category) ==
    IF df_pay = <<>> THEN 0
    ELSE LET Keep(r) == CategoryMask(r, sid, sy_, category)
         IN  SumAmount(SelectSeq(df_pay, Keep))

\* the allocation is a dict: its entries in insertion order
Entry(category, value) == [category |-> category, value |-> value]

\* an empty mapping for a grade without fees
PassThroughNothing(amount) == <<>>

\* the mapping returned for a grade without fees
PassThrough(amount) == <<Entry("Tuition Payment", amount)>>

\* the scheduled fee, with what was paid not subtracted
DueIgnoringPaid(fee, paid) == Peso(fee)

\* dp_due, books_due: the scheduled fee less what the log holds for the bucket
Due(fee, paid) == FSub(Peso(fee), paid)

\* a bucket is filled when something is due and something remains
Fills(due, remaining) == due > 0 /\ remaining > 0

\* the bucket takes all it is due, or all that remains, without the min
TakeDue(due, remaining) == due
TakeAll(due, remaining) == remaining

Take(due, remaining) == Min(due, remaining)

\* the catch-all entry written also for a remainder of zero
HasRemainingOrZero(remaining) == remaining >= 0

\* the catch-all entry is written when something remains
HasRemaining(remaining) == remaining > 0

distribute_payment(grade, amount, df_pay, sid, sy_) ==
    IF ~HasFees(grade) THEN PassThrough(amount)
    ELSE
    LET fees       == FEE_STRUCTURE[grade]
        paid_dp    == paid_by_category(df_pay, sid, sy_, "DP")
        paid_books == paid_by_category(df_pay, sid, sy_, "Books")
        dp_due     == Due(fees.dp, paid_dp)
        fillDP     == Fills(dp_due, amount)
        takeDP     == Take(dp_due, amount)
        alloc1     == IF fillDP THEN <<Entry("DP", takeDP)>> ELSE <<>>
        remaining1 == IF fillDP THEN FSub(amount, takeDP) ELSE amount
        books_due  == Due(fees.books, paid_books)
        fillBooks  == Fills(books_due, remaining1)
        takeBooks  == Take(books_due, remaining1)
        alloc2     == IF fillBooks
                      THEN Append(alloc1, Entry("Books", takeBooks)) ELSE alloc1
        remaining2 == IF fillBooks THEN FSub(remaining1, takeBooks) ELSE remaining1
    IN  IF HasRemaining(remaining2)
        THEN Append(alloc2, Entry("Monthly Tuition", remaining2))
        ELSE alloc2

\* the mask of get_financials, row by row
StudentYearMask(r, sid, sy_) == r.Student_ID = sid /\ r.School_Year = sy_

\* the balance clamped at zero
BalanceClamped(total_fee, paid) == Max(0, FSub(total_fee, paid))

\* total_fee - paid, as returned
Balance(total_fee, paid) == FSub(total_fee, paid)

get_financials(sid, grade, df_pay, sy_) ==
    LET total_fee == compute_total_fee(grade)
        Keep(r)   == StudentYearMask(r, sid, sy_)
        paid      == IF df_pay = <<>> THEN 0 ELSE SumAmount(SelectSeq(df_pay, Keep))
    IN  <<total_fee, paid, Balance(total_fee, paid)>>

\* sum(allocation.values())
RECURSIVE SumValues(_)
SumValues(alloc) ==
    IF alloc = <<>> THEN 0
    ELSE FAdd(SumValues(SubSeq(alloc, 1, Len(alloc) - 1)), alloc[Len(alloc)].value)

----------------------------------------------------------------------------
(* Rows, calls and the state the application starts in *)

PayRow(sid, sy_, amount, notes, type) ==
    [Student_ID |-> sid, School_Year |-> sy_, Amount |-> amount,
     Notes |-> notes, Type |-> type]

RegRow(sid, grade, sy_) ==
    [Student_ID |-> sid, Grade_Level |-> grade, School_Year |-> sy_]

\* "Grade 11" is a grade level the fee schedule does not list
UnlistedGrade == "Grade 11"

\* the registry the cashier works on: two students of 2025-2026, one of them in a
\* grade without fees, and one student of 2026-2027
InitialRegistry ==
    << RegRow("2025-0001", "Grade 1", SCHOOL_YEARS[1]),
       RegRow("2025-0002", UnlistedGrade, SCHOOL_YEARS[1]),
       RegRow("2026-0001", "Grade 6", SCHOOL_YEARS[2]) >>

Call(op, grade, amount, sid, sy_) ==
    [op |-> op, grade |-> grade, amount |-> amount, sid |-> sid, sy |-> sy_]

NoCall == Call("none", "", 0, "", "")

NoPost ==
    [submitted |-> FALSE, sid |-> "", sy |-> "", grade |-> "", amount |-> 0,
     allocations |-> <<>>, appended |-> 0, failAt |-> 0, before |-> <<>>,
     count |-> 0]

UserRow(u, p, r) == [Username |-> u, Password |-> p, Role |-> r]

\* the accounts load_data writes into an empty User_Accounts sheet
SEEDS ==
    << UserRow("alsdiregistrar", "alsdi2006", "Registrar"),
       UserRow("alsdifinance", "alsdi2006", "Finance"),
       UserRow("alsdiadmin", "alsdi2006", "Admin") >>

\* st.session_state: role is "" until the first login sets it
Session(logged_in, role) == [logged_in |-> logged_in, role |-> role]

NoSession == Session(FALSE, "")

\* the values fetch_sheet_data returned for the worksheets, kept by st.cache_data
Snapshot(reg, pay, us) == [valid |-> TRUE, reg |-> reg, pay |-> pay, users |-> us]

\* the cache after st.cache_data.clear() or after the five seconds of its ttl
EmptyCache == [valid |-> FALSE, reg |-> <<>>, pay |-> <<>>, users |-> <<>>]

\* a rendered module and the frames it was rendered from; error is TRUE when the
\* run ended in an uncaught exception; user and pwd are the fields of the login
\* form as last submitted
Page(module, error, df_reg, df_pay, user, pwd) ==
    [module |-> module, error |-> error, df_reg |-> df_reg, df_pay |-> df_pay,
     user |-> user, pwd |-> pwd]

\* the login form: no module is rendered
LoginForm(user, pwd) == Page("Login", FALSE, <<>>, <<>>, user, pwd)

----------------------------------------------------------------------------
(* The helpers applied to arbitrary arguments: one application per behaviour *)

\* longest payment log the helpers are applied to
MaxLogRows == 2

StudentIds == {"2025-0001", "2025-0002"}
\* the student the helpers are called for; the log holds rows of both students
CallStudents == {"2025-0001"}
Years      == {SCHOOL_YEARS[1], SCHOOL_YEARS[2]}
CallGrades == {"Grade 1", "Grade 6", UnlistedGrade}
Categories == {"DP", "Books", "Monthly Tuition"}
\* 4231.75, 3000.00 and 30000.00 (more than any bucket, and than any total fee)
LoggedAmounts == {Peso(4231) + 3 * (Scale \div 4), Peso(3000), Peso(30000)}
\* 0, 5000, 12000, 20000 and 30000.50
CallAmounts == {0, Peso(5000), Peso(12000), Peso(20000), Peso(30000) + Scale \div 2}

LogRows ==
    {PayRow(s, y, a, n, "Payment") :
        s \in StudentIds, y \in Years, a \in LoggedAmounts, n \in Categories}

Logs == UNION {[1..n -> LogRows] : n \in 0..MaxLogRows}

InitCalc ==
    /\ registry = InitialRegistry
    /\ payLog \in Logs
    /\ sy = SCHOOL_YEARS[1]
    /\ post = NoPost
    /\ call = NoCall
    /\ ret = <<>>
    /\ users = SEEDS
    /\ cache = Snapshot(registry, payLog, users)
    /\ session = NoSession
    /\ screen = LoginForm("", "")

ApplyTotalFee(grade) ==
    /\ call = NoCall
    /\ call' = Call("compute_total_fee", grade, 0, "", "")
    /\ ret' = compute_total_fee(grade)
    /\ UNCHANGED <<registry, payLog, sy, post>>
    /\ UNCHANGED appVars

ApplyDistribute(grade, amount, sid, sy_) ==
    /\ call = NoCall
    /\ call' = Call("distribute_payment", grade, amount, sid, sy_)
    /\ ret' = distribute_payment(grade, amount, payLog, sid, sy_)
    /\ UNCHANGED <<registry, payLog, sy, post>>
    /\ UNCHANGED appVars

ApplyFinancials(sid, grade, sy_) ==
    /\ call = NoCall
    /\ call' = Call("get_financials", grade, 0, sid, sy_)
    /\ ret' = get_financials(sid, grade, payLog, sy_)
    /\ UNCHANGED <<registry, payLog, sy, post>>
    /\ UNCHANGED appVars

NextCalc ==
    \/ \E g \in GRADE_LEVELS \cup CallGrades : ApplyTotalFee(g)
    \/ \E g \in CallGrades, a \in CallAmounts, s \in CallStudents, y \in Years :
          ApplyDistribute(g, a, s, y)
    \/ \E s \in CallStudents, g \in CallGrades, y \in Years : ApplyFinancials(s, g, y)

SpecCalc == InitCalc /\ [][NextCalc]_vars

----------------------------------------------------------------------------
(* The cashier: render_finance and the session's school year *)

\* payments the cashier posts in one run of the model
MaxPayments == 3

\* 1.00 (the form's minimum), 4231.125, 4231.50, 12000.00 and 20000.50
FormAmounts ==
    {Peso(1), Peso(4231) + Scale \div 8, Peso(4231) + Scale \div 2, Peso(12000),
     Peso(20000) + Scale \div 2}

\* sy_reg = df_reg[df_reg["School_Year"] == sy]
SyReg(df_reg, sy_) ==
    LET Keep(r) == r.School_Year = sy_ IN SelectSeq(df_reg, Keep)

\* sy_reg[sy_reg["Student_ID"] == sid].iloc[0]
FindStudent(sy_reg, sid) ==
    LET Keep(r) == r.Student_ID = sid IN SelectSeq(sy_reg, Keep)[1]

\* the row written with the default school year instead of the selected one
AllocationRowDefaultYear(entry, sid, sy_) ==
    PayRow(sid, SCHOOL_YEARS[1], entry.value, entry.category, "Payment")

\* the row appended for each entry of the allocation, in the order of the dict
AllocationRow(entry, sid, sy_) ==
    PayRow(sid, sy_, entry.value, entry.category, "Payment")

AllocationRows(allocations, sid, sy_) ==
    [i \in 1..Len(allocations) |-> AllocationRow(allocations[i], sid, sy_)]

\* all rows or none: a failed call takes back the rows appended before it
AppendLoopAtomic(log, rows, failAt) ==
    IF failAt = 0 THEN log \o rows ELSE log

\* the loop of append_row calls; failAt = 0 when every call succeeds, else the
\* call that raises: the loop ends there and the rows before it stay in the sheet
AppendLoop(log, rows, failAt) ==
    log \o SubSeq(rows, 1, IF failAt = 0 THEN Len(rows) ELSE failAt - 1)

\* the pay_tuition form, its frames being the rows the sheets hold at the submission
PayTuition(sid, amt, failAt) ==
    /\ post.count < MaxPayments
    /\ \E i \in 1..Len(registry) :
          registry[i].School_Year = sy /\ registry[i].Student_ID = sid
    /\ LET stu         == FindStudent(SyReg(registry, sy), sid)
           allocations == distribute_payment(stu.Grade_Level, amt, payLog, sid, sy)
           rows        == AllocationRows(allocations, sid, sy)
       IN  /\ failAt <= Len(rows)
           /\ payLog' = AppendLoop(payLog, rows, failAt)
           /\ post' = [submitted |-> TRUE, sid |-> sid, sy |-> sy,
                       grade |-> stu.Grade_Level, amount |-> amt,
                       allocations |-> allocations,
                       appended |-> Len(payLog') - Len(payLog),
                       failAt |-> failAt, before |-> payLog,
                       count |-> post.count + 1]
    /\ UNCHANGED <<registry, sy, call, ret>>
    /\ UNCHANGED appVars

\* the sidebar's school-year selectbox
SelectSchoolYear(new_sy) ==
    /\ new_sy # sy
    /\ sy' = new_sy
    /\ UNCHANGED <<registry, payLog, post, call, ret>>
    /\ UNCHANGED appVars

InitCashier ==
    /\ registry = InitialRegistry
    /\ payLog = <<>>
    /\ sy = SCHOOL_YEARS[1]
    /\ post = NoPost
    /\ call = NoCall
    /\ ret = <<>>
    /\ users = SEEDS
    /\ cache = EmptyCache
    /\ session = Session(TRUE, "Finance")
    /\ screen = Page("Finance", FALSE, registry, payLog, "alsdifinance", "alsdi2006")

NextCashier ==
    \/ \E s \in {registry[i].Student_ID : i \in 1..Len(registry)},
          a \in FormAmounts, f \in 0..3 : PayTuition(s, a, f)
    \/ \E y \in {SCHOOL_YEARS[i] : i \in 1..Len(SCHOOL_YEARS)} : SelectSchoolYear(y)

SpecCashier == InitCashier /\ [][NextCashier]_vars

----------------------------------------------------------------------------
(* Properties of the helpers, checked under SpecCalc *)

IsDistribute == call.op = "distribute_payment"
IsFinancials == call.op = "get_financials"
IsTotalFee   == call.op = "compute_total_fee"

\* the rows of a log that belong to one student and school year
OwnRows(log, sid, sy_) ==
    LET Own(r) == r.Student_ID = sid /\ r.School_Year = sy_ IN SelectSeq(log, Own)

\* what the log holds for one student, school year and label
Logged(log, sid, sy_, label) ==
    LET Is(r) == r.Student_ID = sid /\ r.School_Year = sy_ /\ r.Notes = label
    IN  SumAmount(SelectSeq(log, Is))

\* |x - y| is at most the relative rounding error 2^(3 - SignificandBits) of scale
WithinRounding(x, y, scale) == Abs(x - y) * 2 ^ (SignificandBits - 3) <= scale

WholeLog(log) == \A i \in 1..Len(log) : IsWhole(log[i].Amount)

\* C1 as claimed: the values of the returned mapping sum to exactly amount, for
\* every grade, amount and payment log.
C1_SumIsExactlyAmount ==
    IsDistribute => SumValues(ret) = call.amount

\* C1 as amended: the values of the returned mapping sum to amount up to float
\* rounding (a relative error of at most 2^(3 - SignificandBits)), and to exactly
\* amount when amount and the logged amounts are whole numbers of pesos.
C1_SumIsAmountWithinRounding ==
    IsDistribute =>
        /\ WithinRounding(SumValues(ret), call.amount, call.amount)
        /\ (IsWhole(call.amount) /\ WholeLog(OwnRows(payLog, call.sid, call.sy)))
              => SumValues(ret) = call.amount

\* C1 witness: a three-entry allocation whose float sum is not the amount
C1_Witness ==
    /\ IsDistribute /\ Len(ret) = 3
    /\ SumValues(ret) # call.amount

\* C1, the exact case: a three-entry allocation over whole amounts with part of the
\* Books bucket already paid
C1_WitnessWhole ==
    /\ IsDistribute /\ Len(ret) = 3 /\ IsWhole(call.amount)
    /\ OwnRows(payLog, call.sid, call.sy) # <<>>
    /\ WholeLog(OwnRows(payLog, call.sid, call.sy))
    /\ Logged(payLog, call.sid, call.sy, "Books") = Peso(3000)

\* the allocation C2 describes: DP, then Books, each capped by what is still due,
\* then Monthly Tuition with the whole remainder; only positive shares are entries
C2_Shares(grade, amount, log, sid, sy_) ==
    LET fees     == FEE_STRUCTURE[grade]
        dpShare  == Min(Max(0, FSub(Peso(fees.dp), Logged(log, sid, sy_, "DP"))),
                        amount)
        afterDP  == FSub(amount, dpShare)
        bkShare  == Min(Max(0, FSub(Peso(fees.books), Logged(log, sid, sy_, "Books"))),
                        afterDP)
        monthly  == FSub(afterDP, bkShare)
        all      == <<Entry("DP", dpShare), Entry("Books", bkShare),
                      Entry("Monthly Tuition", monthly)>>
        Positive(e) == e.value > 0
    IN  SelectSeq(all, Positive)

\* C2: for a grade of the fee schedule the mapping is DP = min(max(0, dp - paidDP),
\* amount), Books = min(max(0, books - paidBooks), amount - DP), Monthly Tuition =
\* the uncapped remainder, in that order, holding only the strictly positive
\* shares; a fresh Grade 1 student gets {DP: 5000} for 5000, {DP: 9500, Books:
\* 2500} for 12000 and {DP: 9500, Books: 5230, Monthly Tuition: 5270} for 20000.
C2_PriorityOrder ==
    (IsDistribute /\ HasFees(call.grade)) =>
        /\ ret = C2_Shares(call.grade, call.amount, payLog, call.sid, call.sy)
        /\ \A i \in 1..Len(ret) : ret[i].value > 0
        /\ (call.grade = "Grade 1" /\ OwnRows(payLog, call.sid, call.sy) = <<>>) =>
              /\ call.amount = Peso(5000) => ret = <<Entry("DP", Peso(5000))>>
              /\ call.amount = Peso(12000) =>
                    ret = <<Entry("DP", Peso(9500)), Entry("Books", Peso(2500))>>
              /\ call.amount = Peso(20000) =>
                    ret = <<Entry("DP", Peso(9500)), Entry("Books", Peso(5230)),
                            Entry("Monthly Tuition", Peso(5270))>>

\* C2 witness: the DP bucket is over-paid, Books is partly paid, and the payment
\* is split between Books and Monthly Tuition
C2_Witness ==
    /\ IsDistribute /\ call.grade = "Grade 1"
    /\ Logged(payLog, call.sid, call.sy, "DP") > Peso(9500)
    /\ Logged(payLog, call.sid, call.sy, "Books") = Peso(3000)
    /\ ret = <<Entry("Books", Peso(2230)), Entry("Monthly Tuition", Peso(2770))>>

\* C3 as claimed: an amount of 0 gives the empty mapping for any grade, in the fee
\* schedule or not, and any payment log.
C3_ZeroGivesEmptyMapping ==
    (IsDistribute /\ call.amount = 0) => ret = <<>>

\* C3 as amended: an amount of 0 gives the empty mapping for every grade of the fee
\* schedule and any payment log; for a grade outside the schedule it gives the
\* single entry {"Tuition Payment": 0}.
C3_ZeroGivesEmptyMappingForListedGrades ==
    (IsDistribute /\ call.amount = 0) =>
        IF HasFees(call.grade) THEN ret = <<>>
        ELSE ret = <<Entry("Tuition Payment", 0)>>

\* C3 witness: a zero amount for a listed grade whose buckets are still due
C3_Witness ==
    /\ IsDistribute /\ call.amount = 0 /\ HasFees(call.grade)
    /\ Logged(payLog, call.sid, call.sy, "DP") = Peso(3000)
    /\ ret = <<>>

\* C4: for a grade without an entry in FEE_STRUCTURE the mapping is the single
\* entry {"Tuition Payment": amount}, whatever the payment log holds.
C4_UnknownGradePassThrough ==
    (IsDistribute /\ ~HasFees(call.grade)) =>
        /\ Len(ret) = 1
        /\ ret[1] = Entry("Tuition Payment", call.amount)

\* C4 witness: an unlisted grade, a positive amount and a log with rows of the student
C4_Witness ==
    /\ IsDistribute /\ ~HasFees(call.grade) /\ call.amount > 0
    /\ Len(OwnRows(payLog, call.sid, call.sy)) = MaxLogRows
    /\ ret = <<Entry("Tuition Payment", call.amount)>>

\* C5: compute_total_fee(grade) is dp + books + monthly * 10 for every grade of
\* FEE_STRUCTURE (27480 for Grade 1) and 0 for every other grade.
C5_TotalFeeFormula ==
    IsTotalFee =>
        /\ HasFees(call.grade) =>
              ret = Peso(FEE_STRUCTURE[call.grade].dp + FEE_STRUCTURE[call.grade].books
                         + FEE_STRUCTURE[call.grade].monthly * 10)
        /\ call.grade = "Grade 1" => ret = Peso(27480)
        /\ ~HasFees(call.grade) => ret = 0

\* C5 witness: the total fee of Grade 1
C5_Witness ==
    IsTotalFee /\ call.grade = "Grade 1" /\ ret = Peso(27480)

\* C6: get_financials returns (total, paid, balance) with total =
\* compute_total_fee(grade), paid = the sum of Amount over the rows of sid and sy
\* (0 when there is none) and balance = total - paid, negative when paid exceeds
\* total.
C6_Financials ==
    IsFinancials =>
        /\ ret[1] = compute_total_fee(call.grade)
        /\ ret[2] = SumAmount(OwnRows(payLog, call.sid, call.sy))
        /\ OwnRows(payLog, call.sid, call.sy) = <<>> => ret[2] = 0
        /\ ret[3] = FSub(ret[1], ret[2])
        /\ ret[2] > ret[1] => ret[3] < 0

\* C6 witness: a student of a listed grade who has paid more than the total fee
C6_Witness ==
    /\ IsFinancials /\ HasFees(call.grade)
    /\ ret[2] > ret[1] /\ ret[3] < 0

\* C8: the results of get_financials and distribute_payment for (sid, sy) are
\* those computed from the rows of sid and sy alone, so two logs that agree on
\* these rows give the same results.
C8_Isolation ==
    /\ IsDistribute =>
          ret = distribute_payment(call.grade, call.amount,
                                   OwnRows(payLog, call.sid, call.sy),
                                   call.sid, call.sy)
    /\ IsFinancials =>
          ret = get_financials(call.sid, call.grade,
                               OwnRows(payLog, call.sid, call.sy), call.sy)

\* C8 witness: the log holds a DP row of the student in another school year and a
\* DP row of another student in the same school year, and none of the student's own
C8_Witness ==
    /\ IsDistribute /\ HasFees(call.grade) /\ call.amount > 0
    /\ OwnRows(payLog, call.sid, call.sy) = <<>>
    /\ \E i, j \in 1..Len(payLog) :
          /\ payLog[i].Student_ID = call.sid /\ payLog[i].School_Year # call.sy
          /\ payLog[i].Notes = "DP"
          /\ payLog[j].Student_ID # call.sid /\ payLog[j].School_Year = call.sy
          /\ payLog[j].Notes = "DP"

----------------------------------------------------------------------------
(* Properties of the cashier, checked under SpecCashier *)

Posted == post.submitted
PostedAll == post.submitted /\ post.failAt = 0

IsPrefix(a, b) == Len(a) <= Len(b) /\ SubSeq(b, 1, Len(a)) = a

\* the rows the last submission added to the sheet
PostedRows == SubSeq(payLog, Len(post.before) + 1, Len(payLog))

PaidOf(log) == get_financials(post.sid, post.grade, log, post.sy)[2]
BalanceOf(log) == get_financials(post.sid, post.grade, log, post.sy)[3]

\* the amounts of rows added in exact arithmetic, without float rounding
RECURSIVE ExactSum(_)
ExactSum(rows) ==
    IF rows = <<>> THEN 0 ELSE rows[1].Amount + ExactSum(Tail(rows))

RegisteredIn(sid, sy_) ==
    {i \in 1..Len(registry) :
        registry[i].Student_ID = sid /\ registry[i].School_Year = sy_}

C9_RowsPerEntry ==
    /\ IsPrefix(post.before, payLog)
    /\ Len(PostedRows) = Len(post.allocations)
    /\ \A i \in 1..Len(PostedRows) :
          /\ PostedRows[i].Notes = post.allocations[i].category
          /\ PostedRows[i].Amount = post.allocations[i].value
          /\ PostedRows[i].Student_ID = post.sid
          /\ PostedRows[i].School_Year = post.sy
          /\ PostedRows[i].Type = "Payment"

\* C9 as claimed: a tuition payment of amount a whose appends all succeed appends
\* one row per entry of the allocation, changes no existing row, and raises the
\* student's paid-to-date by exactly a and lowers the balance by exactly a.
C9_PostRaisesPaidByExactlyAmount ==
    PostedAll =>
        /\ C9_RowsPerEntry
        /\ PaidOf(payLog) - PaidOf(post.before) = post.amount
        /\ BalanceOf(post.before) - BalanceOf(payLog) = post.amount

\* C9 as amended: a tuition payment of amount a whose appends all succeed appends
\* one row per entry of the allocation, changes no existing row, and raises the
\* student's paid-to-date and lowers the balance by a up to float rounding (a
\* relative error of at most 2^(3 - SignificandBits)), and by exactly a when a and
\* the student's logged amounts are whole numbers of pesos.
C9_PostRaisesPaidByAmountWithinRounding ==
    PostedAll =>
        /\ C9_RowsPerEntry
        /\ WithinRounding(PaidOf(payLog) - PaidOf(post.before), post.amount,
                          PaidOf(payLog))
        /\ WithinRounding(BalanceOf(post.before) - BalanceOf(payLog), post.amount,
                          compute_total_fee(post.grade) + PaidOf(payLog))
        /\ (IsWhole(post.amount) /\ WholeLog(OwnRows(post.before, post.sid, post.sy)))
              => /\ PaidOf(payLog) - PaidOf(post.before) = post.amount
                 /\ BalanceOf(post.before) - BalanceOf(payLog) = post.amount

\* C9 witness: a payment split over three rows on top of earlier rows, in a school
\* year other than the first
C9_Witness ==
    /\ PostedAll /\ Len(post.allocations) = 3 /\ post.before # <<>>
    /\ post.sy # SCHOOL_YEARS[1]

\* C9, the rounded case: a payment that raises the float paid-to-date by another
\* value than the amount
C9_WitnessRounded ==
    /\ PostedAll
    /\ PaidOf(payLog) - PaidOf(post.before) # post.amount

\* C10: when the k-th append of an allocation of N > 1 entries fails (1 < k <= N),
\* the k-1 rows appended before it are in the Payments_Log after the submission,
\* in front of them the log as it was, and these rows hold less than the amount
\* entered.
C10_PartialPostStays ==
    (Posted /\ post.failAt > 1) =>
        /\ Len(post.allocations) > 1
        /\ post.appended = post.failAt - 1
        /\ post.appended < Len(post.allocations)
        /\ payLog = post.before \o
              SubSeq(AllocationRows(post.allocations, post.sid, post.sy),
                     1, post.appended)
        /\ ExactSum(PostedRows) < post.amount

\* C10 witness: the third append of a three-entry allocation failed and the DP and
\* Books rows are in the log
C10_Witness ==
    /\ Posted /\ post.failAt = 3 /\ post.appended = 2
    /\ Len(post.allocations) = 3
    /\ PostedRows[1].Notes = "DP" /\ PostedRows[2].Notes = "Books"

----------------------------------------------------------------------------
(* The application: one action per interaction, each the script runs it starts *)

\* rows the Student_Registry holds at most
MaxRegistryRows == 4
\* rows of the Payments_Log after which no further payment is submitted
MaxAppLogRows == 2
\* rows the User_Accounts sheet holds at most
MaxUsers == 4

\* st.secrets["auth"]: the administrator's credentials kept outside the sheets
AUTH == [username |-> "root", password |-> "s3cret"]

\* fetch_sheet_data under st.cache_data: a valid entry is returned as it is, else
\* the sheets are read and the result is kept
fetch_sheet_data(c, reg, pay, us) ==
    IF c.valid THEN c ELSE Snapshot(reg, pay, us)

\* the frames load_data returns in the current state
load_data == fetch_sheet_data(cache, registry, payLog, users)

\* the role the login form grants, "" for None
CredentialRole(user, pwd, df_users) ==
    IF user = AUTH.username /\ pwd = AUTH.password THEN "Admin"
    ELSE IF df_users # <<>>
         THEN LET Keep(r) == r.Username = user
                  rec     == SelectSeq(df_users, Keep)
              IN  IF rec # <<>> /\ rec[1].Password = pwd THEN rec[1].Role ELSE ""
         ELSE ""

\* every module offered to every role
menu_opts_for_any_role(role) ==
    <<"Dashboard", "Admissions", "Finance", "User Admin">>

\* the sidebar's menu for a role
menu_opts(role) ==
    <<"Dashboard">>
        \o (IF role \in {"Registrar", "Admin"} THEN <<"Admissions">> ELSE <<>>)
        \o (IF role \in {"Finance", "Admin"} THEN <<"Finance">> ELSE <<>>)
        \o (IF role = "Admin" THEN <<"User Admin">> ELSE <<>>)

\* the module rendered for the menu's selection
Render(sel, d) == Page(sel, FALSE, d.reg, d.pay, screen.user, screen.pwd)

\* the login form's submit button
Login(user, pwd, sy_sel) ==
    /\ ~session.logged_in
    /\ LET d    == load_data
           role == CredentialRole(user, pwd, d.users)
       IN  /\ cache' = d
           /\ IF role # ""
              THEN /\ session' = Session(TRUE, role)
                   /\ sy' = sy_sel
                   /\ screen' = Page(menu_opts(role)[1], FALSE, d.reg, d.pay, user, pwd)
              ELSE /\ screen' = LoginForm(user, pwd)
                   /\ UNCHANGED <<session, sy>>
    /\ UNCHANGED <<registry, payLog, post, call, ret, users>>

\* the sidebar's Log Out button
LogOut ==
    /\ session.logged_in
    /\ session' = [session EXCEPT !.logged_in = FALSE]
    /\ cache' = load_data
    /\ screen' = LoginForm("", "")
    /\ UNCHANGED <<registry, payLog, sy, post, call, ret, users>>

\* the sidebar's school-year selectbox in a session: the run is restarted before
\* the menu is drawn, so the menu keeps its selection or falls back to its first
\* option
ChangeSchoolYear(new_sy) ==
    /\ session.logged_in
    /\ new_sy # sy
    /\ sy' = new_sy
    /\ cache' = load_data
    /\ \E sel \in {screen.module, menu_opts(session.role)[1]} :
          screen' = Render(sel, load_data)
    /\ UNCHANGED <<registry, payLog, post, call, ret, users, session>>

\* the sidebar's menu
SelectMenu(sel) ==
    /\ session.logged_in
    /\ \E i \in 1..Len(menu_opts(session.role)) : menu_opts(session.role)[i] = sel
    /\ cache' = load_data
    /\ screen' = Render(sel, load_data)
    /\ UNCHANGED <<registry, payLog, sy, post, call, ret, users, session>>

\* the five seconds of the cache's ttl pass
Expire ==
    /\ cache.valid
    /\ cache' = EmptyCache
    /\ UNCHANGED <<registry, payLog, sy, post, call, ret, users, session, screen>>

\* the add_user form of the User Admin module
CreateUser(u, p, r) ==
    /\ session.logged_in
    /\ screen.module = "User Admin"
    /\ Len(users) < MaxUsers
    /\ LET d == load_data
       IN  IF d.users # <<>> /\ \E i \in 1..Len(d.users) : d.users[i].Username = u
           THEN /\ cache' = d
                /\ screen' = Render("User Admin", d)
                /\ UNCHANGED users
           ELSE /\ users' = Append(users, UserRow(u, p, r))
                /\ cache' = Snapshot(registry, payLog, users')
                /\ screen' = Render("User Admin", cache')
    /\ UNCHANGED <<registry, payLog, sy, post, call, ret, session>>

\* sy.split('-')[0]
FirstYear(sy_) ==
    CASE sy_ = "2025-2026" -> "2025"
      [] sy_ = "2026-2027" -> "2026"
      [] sy_ = "2027-2028" -> "2027"

\* format(n, "04d")
FourDigits(n) ==
    IF n < 10 THEN "000" \o ToString(n)
    ELSE IF n < 100 THEN "00" \o ToString(n)
    ELSE IF n < 1000 THEN "0" \o ToString(n)
    ELSE ToString(n)

\* nid = f"{sy.split('-')[0]}-{len(sy_reg)+1:04d}"
NewStudentId(sy_, sy_reg) == FirstYear(sy_) \o "-" \o FourDigits(Len(sy_reg) + 1)

\* the enrollment form's Save Student button
Enroll(grade, stype, prev) ==
    /\ session.logged_in
    /\ screen.module = "Admissions"
    /\ Len(registry) < MaxRegistryRows
    /\ LET d      == load_data
           sy_reg == SyReg(d.reg, sy)
       IN  IF stype = "Transferee" /\ prev = ""
           THEN /\ cache' = d
                /\ screen' = Render("Admissions", d)
                /\ UNCHANGED registry
           ELSE /\ registry' = Append(registry, RegRow(NewStudentId(sy, sy_reg), grade, sy))
                /\ cache' = Snapshot(registry', payLog, users)
                /\ screen' = Render("Admissions", cache')
    /\ UNCHANGED <<payLog, sy, post, call, ret, users, session>>

\* what the data editor returns when the rows at the positions in keep are left
\* and every other row of the frame is deleted
EditedRows(df, keep) ==
    LET Nth(i) == CHOOSE j \in keep : Cardinality({m \in keep : m <= j}) = i
    IN  [i \in 1..Cardinality(keep) |-> df[Nth(i)]]

\* the Master List's Save Changes button: batch_clear(["A2:Z"]) empties the sheet
\* below its header, append_rows writes the edited frame
SaveChanges(keep) ==
    /\ session.logged_in
    /\ screen.module = "Admissions"
    /\ LET d         == load_data
           sy_reg    == SyReg(d.reg, sy)
           edited_df == EditedRows(sy_reg, keep)
       IN  /\ keep \subseteq 1..Len(sy_reg)
           /\ registry' = <<>> \o edited_df
           /\ cache' = Snapshot(registry', payLog, users)
           /\ screen' = Render("Admissions", cache')
    /\ UNCHANGED <<payLog, sy, post, call, ret, users, session>>

\* the pay_tuition form in a session: the frames come from load_data, and a call
\* of append_row that raises ends the run before st.cache_data.clear()
SubmitTuition(sid, amt, failAt) ==
    /\ session.logged_in
    /\ screen.module = "Finance"
    /\ Len(payLog) < MaxAppLogRows
    /\ LET d      == load_data
           sy_reg == SyReg(d.reg, sy)
       IN  /\ \E i \in 1..Len(sy_reg) : sy_reg[i].Student_ID = sid
           /\ LET stu         == FindStudent(sy_reg, sid)
                  allocations == distribute_payment(stu.Grade_Level, amt, d.pay, sid, sy)
                  rows        == AllocationRows(allocations, sid, sy)
              IN  /\ failAt <= Len(rows)
                  /\ payLog' = AppendLoop(payLog, rows, failAt)
                  /\ IF failAt = 0
                     THEN /\ cache' = Snapshot(registry, payLog', users)
                          /\ screen' = Render("Finance", cache')
                     ELSE /\ cache' = d
                          /\ screen' = Page("Finance", TRUE, d.reg, d.pay,
                                            screen.user, screen.pwd)
    /\ UNCHANGED <<registry, sy, post, call, ret, users, session>>

\* what is typed into the login form
LoginUsers == {"alsdiregistrar", "alsdifinance", "alsdiadmin", "teacher", AUTH.username}
LoginPasswords == {"alsdi2006", AUTH.password}
\* what is typed into the add_user form
NewUsers == {"teacher", "alsdifinance"}
NewRoles == {"Teacher"}
\* what is typed into the enrollment form
EnrollGrades == {"Grade 1"}
StudentTypes == {"New Student", "Transferee"}
PreviousSchools == {"", "Other School"}
\* the amount typed into the pay_tuition form: 12000.00
AppAmounts == {Peso(12000)}
Modules == {"Dashboard", "Admissions", "Finance", "User Admin"}
AllYears == {SCHOOL_YEARS[i] : i \in 1..Len(SCHOOL_YEARS)}

\* the sheets and the cache once the first script run has read them
InitSheets ==
    /\ registry = InitialRegistry
    /\ payLog = <<>>
    /\ sy = SCHOOL_YEARS[1]
    /\ post = NoPost
    /\ call = NoCall
    /\ ret = <<>>
    /\ users = SEEDS
    /\ cache = Snapshot(registry, payLog, users)

\* the session: it starts at the login form
InitSession ==
    /\ InitSheets
    /\ session = NoSession
    /\ screen = LoginForm("", "")

NextSession ==
    \/ \E u \in LoginUsers, p \in LoginPasswords, y \in AllYears : Login(u, p, y)
    \/ LogOut
    \/ \E y \in AllYears : ChangeSchoolYear(y)
    \/ \E m \in Modules : SelectMenu(m)
    \/ \E u \in NewUsers, p \in LoginPasswords, r \in NewRoles : CreateUser(u, p, r)
    \/ Expire

SpecSession == InitSession /\ [][NextSession]_vars

\* the registrar's work: alsdiregistrar has logged in and opened Admissions
InitRegistrar ==
    /\ InitSheets
    /\ session = Session(TRUE, "Registrar")
    /\ screen = Page("Admissions", FALSE, registry, payLog, "alsdiregistrar", "alsdi2006")

NextRegistrar ==
    \/ \E g \in EnrollGrades, t \in StudentTypes, v \in PreviousSchools : Enroll(g, t, v)
    \/ \E keep \in SUBSET (1..MaxRegistryRows) : SaveChanges(keep)
    \/ \E y \in AllYears : ChangeSchoolYear(y)
    \/ \E m \in Modules : SelectMenu(m)
    \/ Expire

SpecRegistrar == InitRegistrar /\ [][NextRegistrar]_vars

\* the cashier's work in a session: alsdifinance has logged in and opened Finance
InitFinance ==
    /\ InitSheets
    /\ session = Session(TRUE, "Finance")
    /\ screen = Page("Finance", FALSE, registry, payLog, "alsdifinance", "alsdi2006")

NextFinance ==
    \/ \E s \in {registry[i].Student_ID : i \in 1..Len(registry)},
          a \in AppAmounts, f \in 0..3 : SubmitTuition(s, a, f)
    \/ \E y \in AllYears : ChangeSchoolYear(y)
    \/ \E m \in Modules : SelectMenu(m)
    \/ Expire

SpecFinance == InitFinance /\ [][NextFinance]_vars

----------------------------------------------------------------------------
(* Reads after writes, checked under SpecFinance *)

\* C11: every write is followed by st.cache_data.clear() before the next render,
\* so a module rendered by a run that ended without an exception shows the
\* Student_Registry and the Payments_Log as they are in the sheets, never a
\* cached snapshot taken before a write
C11_RenderAfterWriteIsFresh ==
    (session.logged_in /\ ~screen.error) =>
        (screen.df_reg = registry /\ screen.df_pay = payLog)

----------------------------------------------------------------------------
(* The session's role gating, checked under SpecSession *)

\* the modules a role may open
Permits(role, module) ==
    CASE module = "Dashboard"  -> TRUE
      [] module = "Admissions" -> role \in {"Registrar", "Admin"}
      [] module = "Finance"    -> role \in {"Finance", "Admin"}
      [] module = "User Admin" -> role = "Admin"
      [] OTHER                 -> FALSE

\* C12: a module is rendered only in a logged-in session whose role permits it;
\* a session is logged in only with the role that the credentials of its last
\* login submission match; a session that is not logged in shows the login form
C12_RoleGating ==
    /\ screen.module # "Login" =>
          (session.logged_in /\ Permits(session.role, screen.module))
    /\ session.logged_in =>
          /\ session.role # ""
          /\ CredentialRole(screen.user, screen.pwd, users) = session.role
    /\ ~session.logged_in => screen.module = "Login"

\* an account created by the administrator, of a role without a module of its
\* own, is logged in and sees the dashboard
C12_Witness ==
    /\ session.logged_in /\ session.role = "Teacher"
    /\ screen.module = "Dashboard"
    /\ Len(users) > Len(SEEDS)

\* after an administrator logged out, a login with a wrong password was refused
C12_WitnessRefused ==
    /\ ~session.logged_in /\ session.role = "Admin"
    /\ screen.module = "Login" /\ screen.user = "alsdifinance"
    /\ CredentialRole(screen.user, screen.pwd, users) = ""

----------------------------------------------------------------------------
(* The registry under enrollment and Master List saves, checked under
   SpecRegistrar *)

\* the rows of a registry that belong to another school year than sy_
OtherYears(reg, sy_) ==
    LET Keep(r) == r.School_Year # sy_ IN SelectSeq(reg, Keep)

\* C13: Save Changes while school year sy is selected changes only rows whose
\* School_Year is sy: across the step, the rows of every other school year are
\* all still present and unchanged (no other step of the registrar touches them
\* either)
C13_SaveConfinedToSelectedYear ==
    [][OtherYears(registry', sy) = OtherYears(registry, sy)]_vars

\* C14: after any sequence of enrollments and Master List saves, no two rows of
\* the Student_Registry have the same Student_ID
C14_StudentIdsUnique ==
    \A i, j \in 1..Len(registry) :
        registry[i].Student_ID = registry[j].Student_ID => i = j

====
